---- MODULE Spec2Model ----
(***************************************************************************)
(* quickbeam: a paged row store.                                           *)
(*                                                                         *)
(*  - src/src/lib.rs      Pager (HashMap page cache over the file          *)
(*                        "data.db", bincode page encoding), Table, Cursor *)
(*  - src/src/attempt1.rs Pager (Arc<RwLock<Vec<Option<Arc<RwLock<Page>>>>>*)
(*                        append-only row store, shared between clones)    *)
(*                                                                         *)
(* The backing file is modelled byte by byte.  Sizes are scaled down: the  *)
(* source fixes PAGE_SIZE = 4096 (lib.rs:9, bytes per page; attempt1.rs:8, *)
(* rows per page); the model keeps every formula of the source            *)
(* (ROWS_PER_PAGE = PAGE_SIZE / size_of::<Row>(), offset = page_num *      *)
(* PAGE_SIZE, bincode's 8-byte lengths and 4-byte ids) and takes a smaller *)
(* PAGE_SIZE so that full pages, page overflow and page boundaries are     *)
(* reached within the search bounds.                                       *)
(***************************************************************************)
EXTENDS Integers, Sequences, FiniteSets, TLC

\* ------------------------------------------------------------------ bounds
\* lib.rs:9 PAGE_SIZE (bytes per page), scaled down from 4096.
PAGE_SIZE == 64
\* Page numbers the operations are called with: 0 .. MaxPages-1.
MaxPages == 2
\* Operations per behaviour of the lib.rs specification.
MaxOps == 4
\* Injected I/O failures per behaviour.
MaxFaults == 1
\* Row insertions (through the Pager or the Cursor) per behaviour.
MaxInserts == 2

\* attempt1.rs:8 PAGE_SIZE (rows per page), scaled down from 4096.
A1_PAGE_SIZE == 2
\* Threads of the attempt1 specification, each with its own Pager handle.
A1_NThreads == 2
\* Calls (insert_row, get_row, add_page, clone) per behaviour of the attempt1 specification.
A1_MaxCalls == 4

\* --------------------------------------------------------------- constants
\* size_of::<Row>() on a 64-bit target: i32 (4, padded to 8) + String (24).
RowMemSize == 32
\* bincode's fixed-width integer encoding: u64 lengths, i32 ids.
U64Bytes == 8
I32Bytes == 4

\* lib.rs:10
ROWS_PER_PAGE == PAGE_SIZE \div RowMemSize

VARIABLES
    file,       \* "data.db": [exists, bytes]
    pages,      \* the Table's Pager: pages (HashMap<usize, Page>)
    cursor,     \* the Cursor (with its own boxed Pager), when one is live
    last,       \* the last call and what it returned
    hist,       \* the successful insert_row_at calls on the Table's Pager since it was created
    durable,    \* per page: the rows inserted and then written by a successful flush_page
    persisted,  \* durable, as it was when the Table's Pager was created
    loads,      \* per page: the rows of each load from the file by the Table's Pager
    nops,       \* operations so far
    ninserts,   \* insertions called so far
    nfaults,    \* I/O failures injected so far
    \* attempt1.rs
    a1_pages,   \* the shared PageVec: the Page behind each Arc<RwLock<Page>>
    a1_dir,     \* the RwLock of the PageVec: [readers, writer]
    a1_plocks,  \* per page, the RwLock of the Page: [readers, writer]
    a1_pager,   \* per thread, its Pager handle: [live, num_rows]
    a1_th,      \* per thread: where it is in its call, the call's locals and result
    a1_log,     \* per thread: the rows its insert_row calls have pushed
    a1_calls    \* calls so far

libvars == <<file, pages, cursor, last, hist, durable, persisted, loads, nops, ninserts, nfaults>>
a1vars == <<a1_pages, a1_dir, a1_plocks, a1_pager, a1_th, a1_log, a1_calls>>
vars == <<file, pages, cursor, last, hist, durable, persisted, loads, nops, ninserts, nfaults,
          a1_pages, a1_dir, a1_plocks, a1_pager, a1_th, a1_log, a1_calls>>

\* ------------------------------------------------------------------- rows
\* lib.rs:12-16; a name is the sequence of its UTF-8 bytes.
Row(id, name) == [id |-> id, name |-> name]

\* #[derive(Default)] on Row: id 0, empty name.
DefaultRow == Row(0, <<>>)

\* Option<Row>: None is <<>>, Some(r) is <<r>>.
None == <<>>
Some(r) == <<r>>

\* A name one byte too long for a page holding this single row.
LongName == [i \in 1..(PAGE_SIZE - U64Bytes - I32Bytes - U64Bytes + 1) |-> 98]

\* The rows the operations are called with.
InputRows == { Row(1, <<97>>), Row(-2, LongName) }

PageNums == 0..(MaxPages - 1)
RowNums == 0..ROWS_PER_PAGE

\* ------------------------------------------------- bincode (fixint, little endian)
\* Byte i (1-based) of the little-endian two's-complement encoding of n.
\* \div rounds down, so the bytes of a negative i32 are those of n + 2^32;
\* the bytes past the fourth are the sign extension.
LEByte(n, i) ==
    IF i <= 4 THEN (n \div (256 ^ (i - 1))) % 256
    ELSE IF n < 0 THEN 255 ELSE 0

\* usize/u64 (a length) as 8 bytes; i32 as 4 bytes.
EncodeU64(n) == [i \in 1..U64Bytes |-> LEByte(n, i)]
EncodeI32(n) == [i \in 1..I32Bytes |-> LEByte(n, i)]

\* A length too large for any buffer of the model (and for TLC's integers).
Huge == 2147483647

\* The u64 at bytes pos .. pos+7 of b.
DecodeU64(b, pos) ==
    IF \/ \E i \in 4..7 : b[pos + i] # 0
       \/ b[pos + 3] >= 128
    THEN Huge
    ELSE b[pos] + 256 * b[pos + 1] + 65536 * b[pos + 2] + 16777216 * b[pos + 3]

\* The i32 at bytes pos .. pos+3 of b.
DecodeI32(b, pos) ==
    b[pos] + 256 * b[pos + 1] + 65536 * b[pos + 2]
      + 16777216 * (IF b[pos + 3] >= 128 THEN b[pos + 3] - 256 ELSE b[pos + 3])

\* str::from_utf8 on bytes i.. of s (String's deserializer rejects anything else).
IsCont(s, i) == i <= Len(s) /\ s[i] >= 128 /\ s[i] <= 191
InRange(s, i, lo, hi) == i <= Len(s) /\ s[i] >= lo /\ s[i] <= hi

RECURSIVE ValidUtf8From(_, _)
ValidUtf8From(s, i) ==
    IF i > Len(s) THEN TRUE
    ELSE LET c == s[i] IN
      IF c < 128 THEN ValidUtf8From(s, i + 1)
      ELSE IF c >= 194 /\ c <= 223 THEN IsCont(s, i + 1) /\ ValidUtf8From(s, i + 2)
      ELSE IF c >= 224 /\ c <= 239 THEN
           /\ InRange(s, i + 1, IF c = 224 THEN 160 ELSE 128, IF c = 237 THEN 159 ELSE 191)
           /\ IsCont(s, i + 2)
           /\ ValidUtf8From(s, i + 3)
      ELSE IF c >= 240 /\ c <= 244 THEN
           /\ InRange(s, i + 1, IF c = 240 THEN 144 ELSE 128, IF c = 244 THEN 143 ELSE 191)
           /\ IsCont(s, i + 2)
           /\ IsCont(s, i + 3)
           /\ ValidUtf8From(s, i + 4)
      ELSE FALSE

ValidUtf8(s) == ValidUtf8From(s, 1)

\* Serialize for Row (derive, lib.rs:12): id, then the name's length and bytes.
SerializeRow(r) == EncodeI32(r.id) \o EncodeU64(Len(r.name)) \o r.name

RECURSIVE SerializeRows(_)
SerializeRows(rows) ==
    IF rows = <<>> THEN <<>>
    ELSE SerializeRow(Head(rows)) \o SerializeRows(Tail(rows))

\* bincode::serialize(&page.rows) (lib.rs:79): the element count, then the rows.
Serialize(rows) == EncodeU64(Len(rows)) \o SerializeRows(rows)

\* Deserialize n more rows from byte pos of b: [ok, rows]; not ok on running out
\* of bytes or on a name that is not UTF-8.  Bytes after the last row are ignored.
RECURSIVE ReadRows(_, _, _, _)
ReadRows(b, pos, n, acc) ==
    IF n = 0 THEN [ok |-> TRUE, rows |-> acc]
    ELSE IF pos + I32Bytes + U64Bytes - 1 > Len(b) THEN [ok |-> FALSE, rows |-> <<>>]
    ELSE LET id == DecodeI32(b, pos)
             nlen == DecodeU64(b, pos + I32Bytes)
             from == pos + I32Bytes + U64Bytes
         IN IF nlen > Len(b) - from + 1 THEN [ok |-> FALSE, rows |-> <<>>]
            ELSE LET name == SubSeq(b, from, from + nlen - 1)
                 IN IF ~ValidUtf8(name) THEN [ok |-> FALSE, rows |-> <<>>]
                    ELSE ReadRows(b, from + nlen, n - 1, Append(acc, Row(id, name)))

\* bincode::deserialize::<Vec<Row>>(bytes) (lib.rs:29).
Deserialize(b) ==
    IF Len(b) < U64Bytes THEN [ok |-> FALSE, rows |-> <<>>]
    ELSE ReadRows(b, U64Bytes + 1, DecodeU64(b, 1), <<>>)

\* ------------------------------------------------------------------- file
Zeros(n) == [i \in 1..n |-> 0]

\* File::set_len(n) on a shorter file: extended with zero bytes.
Extend(b, n) == IF Len(b) < n THEN b \o Zeros(n - Len(b)) ELSE b

\* seek(Start(off)) then write_all(data): a gap past the end reads as zeros.
WriteAt(b, off, data) ==
    LET n == IF Len(b) > off + Len(data) THEN Len(b) ELSE off + Len(data)
    IN [i \in 1..n |-> IF i > off /\ i <= off + Len(data) THEN data[i - off]
                       ELSE IF i <= Len(b) THEN b[i] ELSE 0]

NoFile == [exists |-> FALSE, bytes |-> <<>>]

\* ------------------------------------------------------------ lib.rs Pager
\* lib.rs:18-21
Page(rows) == [rows |-> rows]

\* HashMap::new() (lib.rs:42): no page cached.
NoPages == <<>>

\* What a call did: res is "Ok", "Err" (an io::Error returned), "Panic" (an
\* unwrap/expect failed) or "Unit" (a function without result returned).
\* io is the I/O step that failed ("none" when none did), loaded whether the
\* page was read and decoded from the file, corrupt whether the bytes read
\* could not be decoded, val the Option<Row> returned.
\* The failing steps injected: of get_page's five fallible calls, metadata fails
\* like set_len and seek like read_exact (same result, same file), so one of each
\* pair is injected; likewise flush_page's seek fails like its open.
Faults == {"none", "open", "set_len", "read"}
FlushFaults == {"none", "open", "write"}

\* get_page without the cache check: the page is read from the file on every call.
GetPage_Reload(pgs, f, n, fault) ==
    LET offset == n * PAGE_SIZE
        sized == [exists |-> TRUE, bytes |-> Extend(f.bytes, offset + PAGE_SIZE)]
        decoded == Deserialize(SubSeq(sized.bytes, offset + 1, offset + PAGE_SIZE))
    IN IF fault # "none"
       THEN [res |-> "Err", pages |-> pgs, file |-> f, io |-> fault,
             loaded |-> FALSE, corrupt |-> FALSE]
       ELSE IF ~decoded.ok
       THEN [res |-> "Panic", pages |-> pgs, file |-> sized, io |-> "none",
             loaded |-> FALSE, corrupt |-> TRUE]
       ELSE [res |-> "Ok", pages |-> (n :> [rows |-> decoded.rows]) @@ pgs,
             file |-> sized, io |-> "none", loaded |-> TRUE, corrupt |-> FALSE]

\* Pager::get_page (lib.rs:46-67) on the cache pgs and the file f, with the
\* I/O step `fault` failing if it is reached.
GetPage(pgs, f, n, fault) ==
    IF n \in DOMAIN pgs
    THEN [res |-> "Ok", pages |-> pgs, file |-> f, io |-> "none", loaded |-> FALSE, corrupt |-> FALSE]
    ELSE LET offset == n * PAGE_SIZE
             opened == [exists |-> TRUE, bytes |-> f.bytes]
             short == Len(f.bytes) < offset + PAGE_SIZE
             sized == [exists |-> TRUE, bytes |-> Extend(f.bytes, offset + PAGE_SIZE)]
             buffer == SubSeq(sized.bytes, offset + 1, offset + PAGE_SIZE)
             decoded == Deserialize(buffer)
         IN IF fault = "open"
            THEN [res |-> "Err", pages |-> pgs, file |-> f, io |-> fault, loaded |-> FALSE, corrupt |-> FALSE]
            ELSE IF fault = "metadata" \/ (fault = "set_len" /\ short)
            THEN [res |-> "Err", pages |-> pgs, file |-> opened, io |-> fault, loaded |-> FALSE, corrupt |-> FALSE]
            ELSE IF fault \in {"seek", "read"}
            THEN [res |-> "Err", pages |-> pgs, file |-> sized, io |-> fault, loaded |-> FALSE, corrupt |-> FALSE]
            ELSE IF ~decoded.ok
            THEN [res |-> "Panic", pages |-> pgs, file |-> sized, io |-> "none",
                  loaded |-> FALSE, corrupt |-> TRUE]
            ELSE [res |-> "Ok", pages |-> (n :> Page(decoded.rows)) @@ pgs,
                  file |-> sized, io |-> "none", loaded |-> TRUE, corrupt |-> FALSE]

\* page.rows.resize_with(index_within_page + 1, Row::default) (lib.rs:89-91)
ResizeWith(rows, n) ==
    IF n > Len(rows) THEN rows \o [i \in 1..(n - Len(rows)) |-> DefaultRow] ELSE rows

\* row_num % ROWS_PER_PAGE (lib.rs:87, 101)
IndexWithinPage(row_num) == row_num % ROWS_PER_PAGE

\* insert_row_at indexing the page by row_num itself, not by row_num % ROWS_PER_PAGE.
InsertRowAt_NoWrap(pgs, f, page_num, row_num, row, fault) ==
    LET g == GetPage(pgs, f, page_num, fault)
    IN IF g.res # "Ok" THEN g
       ELSE LET rows == ResizeWith(g.pages[page_num].rows, row_num + 1)
            IN [g EXCEPT !.pages[page_num] = Page([rows EXCEPT ![row_num + 1] = row])]

\* Pager::insert_row_at (lib.rs:84-96)
InsertRowAt(pgs, f, page_num, row_num, row, fault) ==
    LET g == GetPage(pgs, f, page_num, fault)
        index_within_page == IndexWithinPage(row_num)
    IN IF g.res # "Ok" THEN g
       ELSE LET rows == ResizeWith(g.pages[page_num].rows, index_within_page + 1)
            IN [g EXCEPT !.pages[page_num] =
                    Page([rows EXCEPT ![index_within_page + 1] = row])]

\* Pager::get_row_at (lib.rs:98-110)
GetRowAt(pgs, f, page_num, row_num, fault) ==
    LET g == GetPage(pgs, f, page_num, fault)
        index_within_page == IndexWithinPage(row_num)
        hit == g.res = "Ok" /\ index_within_page < Len(g.pages[page_num].rows)
    IN [res |-> IF g.res = "Panic" THEN "Panic" ELSE "Ok",
        val |-> IF hit THEN Some(g.pages[page_num].rows[index_within_page + 1]) ELSE None,
        pages |-> g.pages, file |-> g.file, io |-> g.io, loaded |-> g.loaded,
        corrupt |-> g.corrupt]

\* Pager::flush_page (lib.rs:69-82); written is how many bytes write_all got
\* out before it failed (all of them when it did not fail).
FlushPage(pgs, f, page_num, fault, written) ==
    IF page_num \notin DOMAIN pgs
    THEN [res |-> "Ok", file |-> f, io |-> "none"]
    ELSE LET offset == page_num * PAGE_SIZE
             opened == [exists |-> TRUE, bytes |-> f.bytes]
             data == Serialize(pgs[page_num].rows)
         IN IF fault = "open" THEN [res |-> "Err", file |-> f, io |-> fault]
            ELSE IF fault = "seek" THEN [res |-> "Err", file |-> opened, io |-> fault]
            ELSE IF fault = "write"
            THEN [res |-> "Err", io |-> fault,
                  file |-> [exists |-> TRUE,
                            bytes |-> IF written = 0 THEN f.bytes
                                      ELSE WriteAt(f.bytes, offset, SubSeq(data, 1, written))]]
            ELSE [res |-> "Ok", io |-> "none",
                  file |-> [exists |-> TRUE, bytes |-> WriteAt(f.bytes, offset, data)]]

\* The first row of rows with id key, as an Option.
RECURSIVE FirstWithId(_, _)
FirstWithId(rows, key) ==
    IF rows = <<>> THEN None
    ELSE IF Head(rows).id = key THEN Some(Head(rows))
    ELSE FirstWithId(Tail(rows), key)

\* Pager::find (lib.rs:113-122): the pages are visited in the HashMap's
\* iteration order, which is unspecified: every page holding the key may be
\* the one whose first match is returned.
Find(pgs, key) ==
    LET hits == {FirstWithId(pgs[n].rows, key) : n \in DOMAIN pgs} \ {None}
    IN IF hits = {} THEN {None} ELSE hits

\* ---------------------------------------------------------- lib.rs Cursor
\* lib.rs:138-143; live is whether a Cursor has been created.
NoCursor == [live |-> FALSE, pages |-> NoPages, page_num |-> 0, row_num |-> 0,
             end_of_table |-> FALSE]

\* Cursor::new (lib.rs:146-155) on a clone of the pager pgs.
CursorNew(pgs, row_num) ==
    [live |-> TRUE, pages |-> pgs, page_num |-> row_num \div ROWS_PER_PAGE,
     row_num |-> row_num, end_of_table |-> FALSE]

\* ------------------------------------------------------------------ state
Call(op, pager, page_num, row_num, row, key, o, res, val) ==
    [op |-> op, pager |-> pager, page_num |-> page_num, row_num |-> row_num,
     row |-> row, key |-> key, res |-> res, val |-> val,
     io |-> o.io, loaded |-> o.loaded, corrupt |-> o.corrupt]

\* A call that touches no file.
NoIo == [io |-> "none", loaded |-> FALSE, corrupt |-> FALSE]

NoRows == [p \in PageNums |-> <<>>]

\* The ids find is called with: those of the input rows, and Row::default's.
Keys == {r.id : r \in InputRows} \cup {DefaultRow.id}

\* The rows hist wrote into page p, by index within the page (the last write wins).
RECURSIVE Ins(_, _)
Ins(h, p) ==
    IF h = <<>> THEN <<>>
    ELSE LET e == h[Len(h)] IN
         IF e.page_num = p
         THEN (IndexWithinPage(e.row_num) :> e.row) @@ Ins(SubSeq(h, 1, Len(h) - 1), p)
         ELSE Ins(SubSeq(h, 1, Len(h) - 1), p)

\* setup_test_db (lib.rs:183-187): a new Pager, no file.
LibInit ==
    /\ file = NoFile
    /\ pages = NoPages
    /\ cursor = NoCursor
    /\ last = Call("new", "table", 0, 0, None, 0, NoIo, "Ok", None)
    /\ hist = <<>>
    /\ durable = NoRows
    /\ persisted = NoRows
    /\ loads = NoRows
    /\ nops = 0
    /\ ninserts = 0
    /\ nfaults = 0

\* One more operation, with at most MaxFaults failing I/O steps per behaviour;
\* a step is made to fail only in a call that reaches it.
Step(fault, io, inserts) ==
    /\ nops < MaxOps
    /\ ninserts + inserts <= MaxInserts
    /\ fault = "none" \/ (nfaults < MaxFaults /\ io = fault)
    /\ nops' = nops + 1
    /\ ninserts' = ninserts + inserts
    /\ nfaults' = IF io = "none" THEN nfaults ELSE nfaults + 1
    /\ UNCHANGED a1vars

\* A panic unwinds the thread: its Pager and Cursor are dropped, the file stays.
\* What runs next starts from a new Pager.
Crashed ==
    /\ pages' = NoPages
    /\ cursor' = NoCursor
    /\ hist' = <<>>
    /\ persisted' = durable
    /\ loads' = NoRows

\* loads after a call with outcome o on page n: the rows get_page decoded, if it loaded.
Loaded(o, n) ==
    IF o.loaded
    THEN [loads EXCEPT ![n] = Append(@, GetPage(pages, file, n, "none").pages[n].rows)]
    ELSE loads

\* Pager::new / Table::new (lib.rs:40-44, 131-135): the Table's Pager is replaced.
NewPager ==
    /\ Step("none", "none", 0)
    /\ pages' = NoPages
    /\ hist' = <<>>
    /\ persisted' = durable
    /\ loads' = NoRows
    /\ last' = Call("new", "table", 0, 0, None, 0, NoIo, "Ok", None)
    /\ UNCHANGED <<file, cursor, durable>>

\* std::fs::remove_file("data.db") (lib.rs:185, 286, 295)
RemoveFile ==
    /\ Step("none", "none", 0)
    /\ file.exists
    /\ file' = NoFile
    /\ durable' = NoRows
    /\ persisted' = NoRows
    /\ last' = Call("remove_file", "none", 0, 0, None, 0, NoIo, "Ok", None)
    /\ UNCHANGED <<pages, cursor, hist, loads>>

\* pager.get_page(n)
DoGetPage(n, fault) ==
    LET o == GetPage(pages, file, n, fault) IN
    /\ Step(fault, o.io, 0)
    /\ file' = o.file
    /\ last' = Call("get_page", "table", n, 0, None, 0, o, o.res, None)
    /\ IF o.res = "Panic" THEN Crashed
       ELSE /\ pages' = o.pages
            /\ loads' = Loaded(o, n)
            /\ UNCHANGED <<cursor, hist, persisted>>
    /\ UNCHANGED durable

\* pager.insert_row_at(page_num, row_num, row)
DoInsertRowAt(page_num, row_num, row, fault) ==
    LET o == InsertRowAt(pages, file, page_num, row_num, row, fault) IN
    /\ Step(fault, o.io, 1)
    /\ file' = o.file
    /\ last' = Call("insert_row_at", "table", page_num, row_num, Some(row), 0, o, o.res, None)
    /\ IF o.res = "Panic" THEN Crashed
       ELSE /\ pages' = o.pages
            /\ loads' = Loaded(o, page_num)
            /\ hist' = IF o.res = "Ok"
                       THEN Append(hist, [page_num |-> page_num, row_num |-> row_num,
                                          row |-> row])
                       ELSE hist
            /\ UNCHANGED <<cursor, persisted>>
    /\ UNCHANGED durable

\* pager.get_row_at(page_num, row_num)
DoGetRowAt(page_num, row_num, fault) ==
    LET o == GetRowAt(pages, file, page_num, row_num, fault) IN
    /\ Step(fault, o.io, 0)
    /\ file' = o.file
    /\ last' = Call("get_row_at", "table", page_num, row_num, None, 0, o, o.res, o.val)
    /\ IF o.res = "Panic" THEN Crashed
       ELSE /\ pages' = o.pages
            /\ loads' = Loaded(o, page_num)
            /\ UNCHANGED <<cursor, hist, persisted>>
    /\ UNCHANGED durable

\* The prefixes of its data a failing write_all may have written.
Prefixes(pgs, page_num) ==
    IF page_num \in DOMAIN pgs
    THEN {0, Len(Serialize(pgs[page_num].rows)) \div 2}
    ELSE {0}

\* pager.flush_page(page_num)
DoFlushPage(page_num, fault, written) ==
    LET o == FlushPage(pages, file, page_num, fault, written) IN
    /\ fault = "write" \/ written = 0
    /\ Step(fault, o.io, 0)
    /\ file' = o.file
    /\ last' = Call("flush_page", "table", page_num, 0, None, 0,
                    [NoIo EXCEPT !.io = o.io], o.res, None)
    /\ durable' = IF o.res = "Ok" /\ page_num \in DOMAIN pages
                  THEN [durable EXCEPT ![page_num] = Ins(hist, page_num)]
                  ELSE durable
    /\ UNCHANGED <<pages, cursor, hist, persisted, loads>>

\* pager.find(key)
DoFind(key) ==
    /\ Step("none", "none", 0)
    /\ \E v \in Find(pages, key) :
         last' = Call("find", "table", 0, 0, None, key, NoIo, "Ok", v)
    /\ UNCHANGED <<file, pages, cursor, hist, durable, persisted, loads>>

\* Cursor::new(Box::new(table.pager.clone()), row_num) (lib.rs:318, 338, 359)
DoCursorNew(row_num) ==
    /\ Step("none", "none", 0)
    /\ cursor' = CursorNew(pages, row_num)
    /\ last' = Call("Cursor::new", "cursor", 0, row_num, None, 0, NoIo, "Ok", None)
    /\ UNCHANGED <<file, pages, hist, durable, persisted, loads>>

\* Cursor::advance (lib.rs:157-168)
DoCursorAdvance(fault) ==
    LET row_num == cursor.row_num + 1
        new_page_num == row_num \div ROWS_PER_PAGE
        o == GetPage(cursor.pages, file, new_page_num, fault)
    IN
    /\ cursor.live
    /\ new_page_num \in PageNums
    /\ Step(fault, o.io, 0)
    /\ file' = o.file
    /\ last' = Call("Cursor::advance", "cursor", new_page_num, row_num, None, 0, o,
                    IF o.res = "Ok" THEN "Unit" ELSE "Panic", None)
    /\ IF o.res # "Ok" THEN Crashed
       ELSE /\ cursor' = [cursor EXCEPT !.row_num = row_num, !.pages = o.pages,
                                        !.page_num = new_page_num]
            /\ UNCHANGED <<pages, hist, persisted, loads>>
    /\ UNCHANGED durable

\* Cursor::insert (lib.rs:170-174)
DoCursorInsert(row, fault) ==
    LET page_num == cursor.row_num \div ROWS_PER_PAGE
        o == InsertRowAt(cursor.pages, file, page_num, cursor.row_num, row, fault)
    IN
    /\ cursor.live
    /\ Step(fault, o.io, 1)
    /\ file' = o.file
    /\ last' = Call("Cursor::insert", "cursor", page_num, cursor.row_num, Some(row), 0, o,
                    IF o.res = "Panic" THEN "Panic" ELSE "Unit", None)
    /\ IF o.res = "Panic" THEN Crashed
       ELSE /\ cursor' = [cursor EXCEPT !.pages = o.pages]
            /\ UNCHANGED <<pages, hist, persisted, loads>>
    /\ UNCHANGED durable

\* read_cursor.pager.get_row_at(read_cursor.page_num, read_cursor.row_num) (lib.rs:362-365)
DoCursorGetRow(fault) ==
    LET o == GetRowAt(cursor.pages, file, cursor.page_num, cursor.row_num, fault) IN
    /\ cursor.live
    /\ Step(fault, o.io, 0)
    /\ file' = o.file
    /\ last' = Call("get_row_at", "cursor", cursor.page_num, cursor.row_num, None, 0, o,
                    o.res, o.val)
    /\ IF o.res = "Panic" THEN Crashed
       ELSE /\ cursor' = [cursor EXCEPT !.pages = o.pages]
            /\ UNCHANGED <<pages, hist, persisted, loads>>
    /\ UNCHANGED durable

\* ------------------------------------------------------------ attempt1.rs
A1_Threads == 1..A1_NThreads

\* The rows insert_row is called with: A1_PAGE_SIZE + 1 distinct ids, so that
\* distinct keys can fill a page and one more.
A1_Rows == { Row(i, <<96 + i>>) : i \in 1..(A1_PAGE_SIZE + 1) }

\* Page::new (attempt1.rs:95-100)
A1_NewPage == [count |-> 0, rows |-> <<>>]

\* RwLock::new: no reader, no writer (0).
A1_Unlocked == [readers |-> {}, writer |-> 0]

\* page_num in insert_row (attempt1.rs:47), with every row sent to page 0.
A1_InsertPageNum_Zero(num_rows) == 0

\* page_num and row_num_in_page in insert_row (attempt1.rs:47-48)
A1_InsertPageNum(num_rows) == num_rows \div A1_PAGE_SIZE
A1_RowNumInPage(num_rows) == num_rows % A1_PAGE_SIZE

\* Page::get_row (attempt1.rs:108-111): rows.get(row_num).cloned()
A1_PageGetRow(page, row_num) ==
    IF row_num < Len(page.rows) THEN Some(page.rows[row_num + 1]) ELSE None

\* Pager::get_row (attempt1.rs:79-85) on the pages pgs, locks aside.
A1_GetRow(pgs, row_num) ==
    LET page_num == row_num \div A1_PAGE_SIZE
    IN IF page_num < Len(pgs)
       THEN A1_PageGetRow(pgs[page_num + 1], row_num % A1_PAGE_SIZE)
       ELSE None

A1_Idle == [pc |-> "idle", op |-> "none", page_num |-> 0, row_num |-> 0,
            row |-> None, ret |-> None]

\* Pager::new (attempt1.rs:28-31) in thread 1; the other threads have no
\* handle until they are given a clone.
A1Init ==
    /\ a1_pages = <<>>
    /\ a1_dir = A1_Unlocked
    /\ a1_plocks = <<>>
    /\ a1_pager = [t \in A1_Threads |-> [live |-> t = 1, num_rows |-> 0]]
    /\ a1_th = [t \in A1_Threads |-> A1_Idle]
    /\ a1_log = [t \in A1_Threads |-> <<>>]
    /\ a1_calls = 0

\* A call begins in an idle thread that has a handle.
A1_Call(t) ==
    /\ a1_th[t].pc = "idle"
    /\ a1_pager[t].live
    /\ a1_calls < A1_MaxCalls
    /\ a1_calls' = a1_calls + 1
    /\ UNCHANGED libvars

\* A step inside a call.
A1_Step == UNCHANGED <<a1_calls, libvars>>

\* #[derive(Clone)] on Pager (attempt1.rs:21-25): thread u gets a clone of
\* thread t's handle: the same Arc of pages, a copy of num_rows.
A1Clone(t, u) ==
    /\ A1_Call(t)
    /\ ~a1_pager[u].live
    /\ a1_pager' = [a1_pager EXCEPT ![u] = [live |-> TRUE, num_rows |-> a1_pager[t].num_rows]]
    /\ UNCHANGED <<a1_pages, a1_dir, a1_plocks, a1_th, a1_log>>

\* insert_row is called (attempt1.rs:46-48).
A1CallInsertRow(t, row) ==
    /\ A1_Call(t)
    /\ a1_th' = [a1_th EXCEPT ![t] =
                   [pc |-> "ins_dir_read", op |-> "insert_row",
                    page_num |-> A1_InsertPageNum(a1_pager[t].num_rows),
                    row_num |-> A1_RowNumInPage(a1_pager[t].num_rows),
                    row |-> Some(row), ret |-> None]]
    /\ UNCHANGED <<a1_pages, a1_dir, a1_plocks, a1_pager, a1_log>>

\* insert_row asking for self.pages.write() with its read guard still alive
\* (no drop(pages_read_lock) before the write lock).
A1InsReadDir_KeepGuard(t) ==
    /\ a1_th[t].pc = "ins_dir_read"
    /\ a1_dir.writer = 0
    /\ a1_dir' = [a1_dir EXCEPT !.readers = @ \cup {t}]
    /\ a1_th' = [a1_th EXCEPT ![t].pc =
                   IF a1_th[t].page_num < Len(a1_pages) THEN "ins_page_write" ELSE "ins_dir_write"]
    /\ UNCHANGED <<a1_pages, a1_plocks, a1_pager, a1_log>>
    /\ A1_Step

\* self.pages.read() (attempt1.rs:50-56).  If the page exists its Arc is
\* cloned and the read guard lives on to the end of insert_row; otherwise
\* the guard is dropped at once.
A1InsReadDir(t) ==
    /\ a1_th[t].pc = "ins_dir_read"
    /\ a1_dir.writer = 0
    /\ IF a1_th[t].page_num < Len(a1_pages)
       THEN /\ a1_dir' = [a1_dir EXCEPT !.readers = @ \cup {t}]
            /\ a1_th' = [a1_th EXCEPT ![t].pc = "ins_page_write"]
       ELSE /\ a1_th' = [a1_th EXCEPT ![t].pc = "ins_dir_write"]
            /\ UNCHANGED a1_dir
    /\ UNCHANGED <<a1_pages, a1_plocks, a1_pager, a1_log>>
    /\ A1_Step

\* self.pages.write(), the second check, the push and the clone of the Arc
\* (attempt1.rs:57-64); the write guard is dropped at the end of the block.
A1InsWriteDir(t) ==
    /\ a1_th[t].pc = "ins_dir_write"
    /\ a1_dir = A1_Unlocked
    /\ IF a1_th[t].page_num >= Len(a1_pages)
       THEN /\ a1_pages' = Append(a1_pages, A1_NewPage)
            /\ a1_plocks' = Append(a1_plocks, A1_Unlocked)
       ELSE UNCHANGED <<a1_pages, a1_plocks>>
    /\ a1_th' = [a1_th EXCEPT ![t].pc = "ins_page_write"]
    /\ UNCHANGED <<a1_dir, a1_pager, a1_log>>
    /\ A1_Step

\* page.write() (attempt1.rs:67)
A1InsLockPage(t) ==
    /\ a1_th[t].pc = "ins_page_write"
    /\ a1_plocks[a1_th[t].page_num + 1] = A1_Unlocked
    /\ a1_plocks' = [a1_plocks EXCEPT ![a1_th[t].page_num + 1].writer = t]
    /\ a1_th' = [a1_th EXCEPT ![t].pc = "ins_push"]
    /\ UNCHANGED <<a1_pages, a1_dir, a1_pager, a1_log>>
    /\ A1_Step

\* The push and the count (attempt1.rs:68-73), then Ok(()) (attempt1.rs:76):
\* the page guard and the directory read guard, if still held, are dropped.
A1InsPush(t) ==
    LET n == a1_th[t].page_num + 1
        fits == a1_th[t].row_num < A1_PAGE_SIZE
    IN
    /\ a1_th[t].pc = "ins_push"
    /\ a1_pages' = IF fits
                   THEN [a1_pages EXCEPT ![n].rows = Append(@, a1_th[t].row[1])]
                   ELSE a1_pages
    /\ a1_pager' = IF fits THEN [a1_pager EXCEPT ![t].num_rows = @ + 1] ELSE a1_pager
    /\ a1_log' = IF fits THEN [a1_log EXCEPT ![t] = Append(@, a1_th[t].row[1])] ELSE a1_log
    /\ a1_plocks' = [a1_plocks EXCEPT ![n].writer = 0]
    /\ a1_dir' = [a1_dir EXCEPT !.readers = @ \ {t}]
    /\ a1_th' = [a1_th EXCEPT ![t].pc = "idle"]
    /\ A1_Step

\* get_row is called (attempt1.rs:79-81).
A1CallGetRow(t, row_num) ==
    /\ A1_Call(t)
    /\ a1_th' = [a1_th EXCEPT ![t] =
                   [pc |-> "get_dir_read", op |-> "get_row",
                    page_num |-> row_num \div A1_PAGE_SIZE,
                    row_num |-> row_num % A1_PAGE_SIZE,
                    row |-> None, ret |-> None]]
    /\ UNCHANGED <<a1_pages, a1_dir, a1_plocks, a1_pager, a1_log>>

\* get_page (attempt1.rs:41-44, 82): the directory is read-locked for the
\* lookup only; without a page get_row returns None.
A1GetReadDir(t) ==
    /\ a1_th[t].pc = "get_dir_read"
    /\ a1_dir.writer = 0
    /\ a1_th' = [a1_th EXCEPT ![t].pc =
                   IF a1_th[t].page_num < Len(a1_pages) THEN "get_page_read" ELSE "idle"]
    /\ UNCHANGED <<a1_pages, a1_dir, a1_plocks, a1_pager, a1_log>>
    /\ A1_Step

\* get_row taking the page for itself (page_lock.write()), not shared.
A1GetLockPage_Exclusive(t) ==
    /\ a1_th[t].pc = "get_page_read"
    /\ a1_plocks[a1_th[t].page_num + 1] = A1_Unlocked
    /\ a1_plocks' = [a1_plocks EXCEPT ![a1_th[t].page_num + 1].writer = t]
    /\ a1_th' = [a1_th EXCEPT ![t].pc = "get_read"]
    /\ UNCHANGED <<a1_pages, a1_dir, a1_pager, a1_log>>
    /\ A1_Step

\* page_lock.read() (attempt1.rs:83)
A1GetLockPage(t) ==
    /\ a1_th[t].pc = "get_page_read"
    /\ a1_plocks[a1_th[t].page_num + 1].writer = 0
    /\ a1_plocks' = [a1_plocks EXCEPT ![a1_th[t].page_num + 1].readers = @ \cup {t}]
    /\ a1_th' = [a1_th EXCEPT ![t].pc = "get_read"]
    /\ UNCHANGED <<a1_pages, a1_dir, a1_pager, a1_log>>
    /\ A1_Step

\* page.get_row(row_num) (attempt1.rs:84), and the page guard is dropped.
A1GetRead(t) ==
    LET n == a1_th[t].page_num + 1 IN
    /\ a1_th[t].pc = "get_read"
    /\ a1_th' = [a1_th EXCEPT ![t].pc = "idle",
                              ![t].ret = A1_PageGetRow(a1_pages[n], a1_th[t].row_num)]
    /\ a1_plocks' = [a1_plocks EXCEPT ![n].readers = @ \ {t}]
    /\ UNCHANGED <<a1_pages, a1_dir, a1_pager, a1_log>>
    /\ A1_Step

\* add_page is called (attempt1.rs:33).
A1CallAddPage(t) ==
    /\ A1_Call(t)
    /\ a1_th' = [a1_th EXCEPT ![t] = [A1_Idle EXCEPT !.pc = "add_dir_write", !.op = "add_page"]]
    /\ UNCHANGED <<a1_pages, a1_dir, a1_plocks, a1_pager, a1_log>>

\* self.pages.write() and the push (attempt1.rs:34-39)
A1AddPage(t) ==
    /\ a1_th[t].pc = "add_dir_write"
    /\ a1_dir = A1_Unlocked
    /\ a1_pages' = Append(a1_pages, A1_NewPage)
    /\ a1_plocks' = Append(a1_plocks, A1_Unlocked)
    /\ a1_th' = [a1_th EXCEPT ![t].pc = "idle"]
    /\ UNCHANGED <<a1_dir, a1_pager, a1_log>>
    /\ A1_Step

\* ------------------------------------------------------- the specifications
Init == LibInit /\ A1Init

Next ==
    \/ NewPager
    \/ RemoveFile
    \/ \E n \in PageNums, fault \in Faults : DoGetPage(n, fault)
    \/ \E p \in PageNums, r \in RowNums, row \in InputRows, fault \in Faults :
         DoInsertRowAt(p, r, row, fault)
    \/ \E p \in PageNums, r \in RowNums, fault \in Faults : DoGetRowAt(p, r, fault)
    \/ \E p \in PageNums, fault \in FlushFaults :
         \E written \in Prefixes(pages, p) : DoFlushPage(p, fault, written)
    \/ \E key \in Keys : DoFind(key)
    \/ \E r \in RowNums : DoCursorNew(r)
    \/ \E fault \in Faults : DoCursorAdvance(fault)
    \/ \E row \in InputRows, fault \in Faults : DoCursorInsert(row, fault)
    \/ \E fault \in Faults : DoCursorGetRow(fault)

\* lib.rs: one thread calling into a Table's Pager and a Cursor.
Spec == Init /\ [][Next]_vars

A1Next ==
    \/ \E t, u \in A1_Threads : A1Clone(t, u)
    \/ \E t \in A1_Threads, row \in A1_Rows : A1CallInsertRow(t, row)
    \/ \E t \in A1_Threads : A1InsReadDir(t)
    \/ \E t \in A1_Threads : A1InsWriteDir(t)
    \/ \E t \in A1_Threads : A1InsLockPage(t)
    \/ \E t \in A1_Threads : A1InsPush(t)
    \/ \E t \in A1_Threads, i \in 0..(2 * A1_PAGE_SIZE) : A1CallGetRow(t, i)
    \/ \E t \in A1_Threads : A1GetReadDir(t)
    \/ \E t \in A1_Threads : A1GetLockPage(t)
    \/ \E t \in A1_Threads : A1GetRead(t)
    \/ \E t \in A1_Threads : A1CallAddPage(t)
    \/ \E t \in A1_Threads : A1AddPage(t)

\* attempt1.rs: threads calling into Pager handles that share one directory.
SpecA1 == Init /\ [][A1Next]_vars

\* The steps of thread t inside a call.
A1_ThreadStep(t) ==
    \/ A1InsReadDir(t) \/ A1InsWriteDir(t) \/ A1InsLockPage(t) \/ A1InsPush(t)
    \/ A1GetReadDir(t) \/ A1GetLockPage(t) \/ A1GetRead(t)
    \/ A1AddPage(t)

\* attempt1.rs with scheduling: a thread that can take its next step, and
\* stays able to, takes it (the scheduler runs every thread; a lock that
\* stays free is granted).
SpecA1Fair == SpecA1 /\ \A t \in A1_Threads : WF_vars(A1_ThreadStep(t))

\* ================================================================ claims
\* The calls that load a page through get_page.
LoadOps == {"get_page", "insert_row_at", "get_row_at", "Cursor::insert", "Cursor::advance"}

\* C1: read-your-write.  Whenever insert_row_at(p, r, row) returns Ok, a
\* get_row_at(p, r) on the state it leaves returns Ok(Some(row)); and when p
\* lay beyond the end of the file, the file has been extended with zero bytes
\* to (p + 1) * PAGE_SIZE and the page holds nothing but the row (and the
\* default rows resize_with puts before it).
C1_ReadYourWrite ==
    [][ (last'.op = "insert_row_at" /\ last'.pager = "table" /\ last'.res = "Ok") =>
          LET p == last'.page_num
              r == last'.row_num
              got == GetRowAt(pages', file', p, r, "none")
              end == (p + 1) * PAGE_SIZE
          IN /\ got.res = "Ok"
             /\ got.val = last'.row
             /\ (p \notin DOMAIN pages /\ Len(file.bytes) <= p * PAGE_SIZE) =>
                  /\ file'.bytes = file.bytes \o Zeros(end - Len(file.bytes))
                  /\ Len(pages'[p].rows) = IndexWithinPage(r) + 1
                  /\ \A i \in 1..IndexWithinPage(r) : pages'[p].rows[i] = DefaultRow
      ]_vars

\* C1 witness: the first call inserts into a page past page 0 of a file that
\* does not exist yet, and the file now ends with that page.
C1_Witness ==
    /\ nops = 1
    /\ last.op = "insert_row_at" /\ last.res = "Ok" /\ last.loaded
    /\ last.page_num > 0
    /\ Len(file.bytes) = (last.page_num + 1) * PAGE_SIZE

\* C3: persistence.  A row inserted at (p, r) and written by a successful
\* flush_page(p) is what get_row_at(p, r) returns on a Pager created
\* afterwards on the same file (which has not written that position itself,
\* and whose file I/O does not fail).
C3_Persistence ==
    (/\ last.op = "get_row_at" /\ last.pager = "table" /\ last.io = "none"
     /\ IndexWithinPage(last.row_num) \in DOMAIN persisted[last.page_num]
     /\ IndexWithinPage(last.row_num) \notin DOMAIN Ins(hist, last.page_num))
    => /\ last.res = "Ok"
       /\ last.val = Some(persisted[last.page_num][IndexWithinPage(last.row_num)])

\* The Table's Pager started on an empty table: every page it loaded was
\* empty, and the file holds zero bytes only.
Fresh ==
    /\ \A p \in PageNums : \A i \in 1..Len(loads[p]) : loads[p][i] = <<>>
    /\ \A i \in 1..Len(file.bytes) : file.bytes[i] = 0

DistinctIds(h) ==
    \A i, j \in 1..Len(h) : i # j => h[i].row.id # h[j].row.id

RECURSIVE StoredRows(_, _)
StoredRows(pgs, ps) ==
    IF ps = {} THEN 0
    ELSE LET n == CHOOSE n \in ps : TRUE
         IN Len(pgs[n].rows) + StoredRows(pgs, ps \ {n})

\* C4: lookup by key.  After rows with pairwise distinct ids have been
\* inserted into an empty table, find(id) returns the row inserted with that
\* id, for each of them, and the pages hold as many rows as were inserted.
C4_LookupByKey ==
    (Fresh /\ DistinctIds(hist)) =>
       /\ \A i \in 1..Len(hist) : Find(pages, hist[i].row.id) = {Some(hist[i].row)}
       /\ StoredRows(pages, DOMAIN pages) = Len(hist)

\* C5: absent means absent.  On a table that started empty, get_row_at(p, r)
\* returns Ok(None) for every slot no insert_row_at has written, and find(k)
\* returns None for every id no inserted row carries.
C5_AbsentMeansAbsent ==
    Fresh =>
       /\ \A p \in PageNums, r \in RowNums :
            IndexWithinPage(r) \notin DOMAIN Ins(hist, p) =>
               LET got == GetRowAt(pages, file, p, r, "none")
               IN got.res = "Ok" /\ got.val = None
       /\ \A k \in Keys :
            (\A i \in 1..Len(hist) : hist[i].row.id # k) => Find(pages, k) = {None}

\* C8: I/O errors are propagated.  A call during whose page load an I/O step
\* failed returns Err: not a success, and not a panic.
C8_IoErrorsPropagated ==
    (last.op \in LoadOps /\ last.io # "none") => last.res = "Err"

\* C9: corrupt pages.  A call whose page load read bytes that do not decode
\* returns Err, and the page is not entered into the page directory.
C9_CorruptPageIsAnError ==
    (last.op \in LoadOps /\ last.corrupt) =>
       /\ last.res = "Err"
       /\ last.pager = "table" => last.page_num \notin DOMAIN pages

\* C10: load-once caching.  The Table's Pager loads a page from the file at
\* most once; as long as that Pager lives (no new Pager, no panic) a cached
\* page stays cached, is not loaded again, and its rows change only by an
\* insert_row_at on that page, which changes the cached rows in place:
\* neither flush_page nor a change of the file touches them.
C10_LoadOnce ==
    [][ /\ \A n \in PageNums : Len(loads'[n]) <= 1
        /\ (last'.op # "new" /\ last'.res # "Panic") =>
             \A n \in DOMAIN pages :
                /\ n \in DOMAIN pages'
                /\ loads'[n] = loads[n]
                /\ pages'[n] # pages[n] =>
                     /\ last'.op = "insert_row_at" /\ last'.pager = "table"
                     /\ last'.page_num = n /\ last'.res = "Ok"
                     /\ LET idx == IndexWithinPage(last'.row_num) + 1
                        IN pages'[n].rows =
                             [ResizeWith(pages[n].rows, idx) EXCEPT ![idx] = last'.row[1]]
      ]_vars

\* C10 witness: a row inserted earlier is read from the cache, with no load,
\* after the file has been removed underneath the Pager.
C10_Witness ==
    /\ last.op = "get_row_at" /\ last.pager = "table" /\ last.res = "Ok"
    /\ ~last.loaded /\ last.val # None
    /\ ~file.exists
    /\ Len(loads[last.page_num]) = 1
    /\ hist # <<>>

\* ------------------------------------------------------------- attempt1.rs
\* Thread t's Pager is the only handle that has inserted rows.
A1_Sole(t) == \A u \in A1_Threads \ {t} : a1_log[u] = <<>>

\* The row number of thread t's get_row call.
A1_Asked(t) == a1_th[t].page_num * A1_PAGE_SIZE + a1_th[t].row_num

\* C2: append and lookup.  On the Pager made by Pager::new (thread 1's), as
\* long as no clone has inserted: num_rows is the number n of its completed
\* insert_row calls, get_row(i) finds the row of the i-th call for every
\* i < n, and a get_row(i) call it has completed returned that row.
C2_AppendLookup ==
    A1_Sole(1) =>
       /\ a1_pager[1].num_rows = Len(a1_log[1])
       /\ \A i \in 0..(Len(a1_log[1]) - 1) : A1_GetRow(a1_pages, i) = Some(a1_log[1][i + 1])
       /\ (a1_th[1].op = "get_row" /\ a1_th[1].pc = "idle" /\ A1_Asked(1) < Len(a1_log[1])) =>
            a1_th[1].ret = Some(a1_log[1][A1_Asked(1) + 1])

\* C2 witness: after A1_PAGE_SIZE + 1 inserts, get_row has returned a row of
\* the second page.
C2_Witness ==
    /\ A1_Sole(1)
    /\ Len(a1_log[1]) = A1_PAGE_SIZE + 1
    /\ a1_th[1].op = "get_row" /\ a1_th[1].pc = "idle"
    /\ a1_th[1].page_num = 1
    /\ a1_th[1].ret # None

\* The rows of the pages pgs, walked in page order.
RECURSIVE A1_Walk(_)
A1_Walk(pgs) == IF pgs = <<>> THEN <<>> ELSE Head(pgs).rows \o A1_Walk(Tail(pgs))

\* C6: sorted storage.  The ids of the stored rows are strictly ascending
\* within every page and from each page to the next (so no id is stored twice).
C6_SortedStorage ==
    LET all == A1_Walk(a1_pages)
    IN \A i, j \in 1..Len(all) : i < j => all[i].id < all[j].id

\* A page that is an Internal node with exactly two children.
IsInternalWithTwoChildren(page) ==
    "children" \in DOMAIN page /\ Len(page.children) = 2

\* C7: split.  Once rows_per_page + 1 rows with distinct keys have been
\* inserted into a new table, the root page is an Internal node with exactly
\* two children and every inserted row is still found.
C7_SplitMakesInternalRoot ==
    (/\ A1_Sole(1)
     /\ Len(a1_log[1]) = A1_PAGE_SIZE + 1
     /\ \A i, j \in 1..Len(a1_log[1]) : i # j => a1_log[1][i].id # a1_log[1][j].id)
    => /\ IsInternalWithTwoChildren(a1_pages[1])
       /\ \A i \in 0..A1_PAGE_SIZE : A1_GetRow(a1_pages, i) = Some(a1_log[1][i + 1])

\* ------------------------------------------------------------------ lib.rs
\* The page whose byte range holds byte i (1-based) of the file.
PageOfByte(i) == (i - 1) \div PAGE_SIZE

\* The calls into the Pager and the Cursor (remove_file is the tests' own).
PagerOps == LoadOps \cup {"new", "flush_page", "find", "Cursor::new"}

\* C11: caller-driven write-back.  In a call into the Pager or the Cursor a
\* byte the file already holds changes only if the call is flush_page(n), n
\* is cached and the byte lies in page n; every other call leaves the stored
\* bytes alone and at most extends the file with zero bytes; flush_page(n) of
\* a page that is not cached returns Ok and leaves the file as it is.
C11_CallerDrivenWriteBack ==
    [][ last'.op \in PagerOps =>
          LET flushed == last'.op = "flush_page" /\ last'.page_num \in DOMAIN pages
          IN /\ Len(file'.bytes) >= Len(file.bytes)
             /\ \A i \in 1..Len(file.bytes) :
                  file'.bytes[i] # file.bytes[i] => (flushed /\ PageOfByte(i) = last'.page_num)
             /\ ~flushed => \A i \in (Len(file.bytes) + 1)..Len(file'.bytes) : file'.bytes[i] = 0
             /\ (last'.op = "flush_page" /\ ~flushed) => (file' = file /\ last'.res = "Ok")
      ]_vars

\* C12: a flush stays in its page.  Every cached page encodes to at most
\* PAGE_SIZE bytes, and flush_page(n) leaves the stored bytes of every other
\* page as they were (a gap it opens before page n reads as zero bytes).
C12_FlushStaysInPage ==
    [][ /\ \A n \in DOMAIN pages' : Len(Serialize(pages'[n].rows)) <= PAGE_SIZE
        /\ last'.op = "flush_page" =>
             \A i \in 1..Len(file'.bytes) :
                PageOfByte(i) # last'.page_num =>
                   IF i <= Len(file.bytes) THEN file'.bytes[i] = file.bytes[i]
                   ELSE file'.bytes[i] = 0
      ]_vars

\* The row numbers a Cursor of the model can stand at.
CursorRows == 0..(MaxPages * ROWS_PER_PAGE - 1)

\* What a read at row number n through the Cursor's Pager returns (lib.rs:362-365).
CursorRead(n) == GetRowAt(cursor.pages, file, n \div ROWS_PER_PAGE, n, "none").val

\* C13: end of table.  When advance() has moved the Cursor to a row number at
\* which, and after which, no row is stored, the Cursor is at the end of the
\* table: end_of_table is true.
C13_CursorEndOfTable ==
    (/\ cursor.live
     /\ last.op = "Cursor::advance" /\ last.res = "Unit"
     /\ \A n \in CursorRows : n >= cursor.row_num => CursorRead(n) = None)
    => cursor.end_of_table

\* The positions (page, row number) of the model.
Positions == PageNums \X RowNums

\* C16: frame of an insert.  When insert_row_at(p, r, row) returns Ok,
\* get_row_at(p2, r2) returns what it returned before the insert for every
\* position (p2, r2) on another page or at another slot of the page (row
\* numbers r and r + ROWS_PER_PAGE name one slot).
C16_InsertFrame ==
    [][ (last'.op = "insert_row_at" /\ last'.pager = "table" /\ last'.res = "Ok") =>
          \A pos \in Positions :
             (pos[1] # last'.page_num \/ IndexWithinPage(pos[2]) # IndexWithinPage(last'.row_num)) =>
                GetRowAt(pages', file', pos[1], pos[2], "none").val
                  = GetRowAt(pages, file, pos[1], pos[2], "none").val
      ]_vars

\* C17: a table built through a Cursor.  When a row is inserted through a
\* Cursor that has just been created at row 0 from the Table's Pager, the
\* Table's Pager holds that row at row number 0.
C17_CursorBuiltTable ==
    [][ (/\ last.op = "Cursor::new" /\ last.row_num = 0
         /\ last'.op = "Cursor::insert" /\ last'.res = "Unit" /\ last'.io = "none")
        => GetRowAt(pages', file', 0, 0, "none").val = last'.row
      ]_vars

\* ------------------------------------------------------------- attempt1.rs
\* No thread is inside insert_row or add_page.
A1_NoWriterActive ==
    \A u \in A1_Threads : a1_th[u].pc \in {"idle", "get_dir_read", "get_page_read", "get_read"}

\* C14: concurrent reads.  While no insert_row or add_page is in progress, a
\* thread inside get_row never waits: its lock of the directory and its lock
\* of the page are granted at once, whatever the other readers hold; and the
\* get_row that completes returns the row stored at the row number asked for.
C14_ConcurrentReads ==
    /\ [](A1_NoWriterActive =>
            \A t \in A1_Threads :
               /\ a1_th[t].pc = "get_dir_read" => ENABLED A1GetReadDir(t)
               /\ a1_th[t].pc = "get_page_read" => ENABLED A1GetLockPage(t))
    /\ [][ \A t \in A1_Threads :
             (a1_th[t].pc = "get_read" /\ a1_th'[t].pc = "idle") =>
                a1_th'[t].ret = A1_GetRow(a1_pages, A1_Asked(t)) ]_vars

\* C14 witness: two threads hold the read lock of one page at once, each
\* about to read a row the page has.
C14_Witness ==
    \E n \in 1..Len(a1_pages) :
       /\ Cardinality(a1_plocks[n].readers) = 2
       /\ \A t \in a1_plocks[n].readers :
            a1_th[t].pc = "get_read" /\ A1_GetRow(a1_pages, A1_Asked(t)) # None

\* The page a directory write of thread t is about: the page add_page
\* appends, or the page insert_row found missing.
A1_DirTarget(t) ==
    IF a1_th[t].pc = "add_dir_write" THEN Len(a1_pages) ELSE a1_th[t].page_num

\* Thread u is at work on the contents of a page: waiting for its lock or
\* holding it.
A1_OnPage(u) == a1_th[u].pc \in {"ins_page_write", "ins_push", "get_page_read", "get_read"}

\* C15: independent locking.  A thread that wants the directory for a page
\* (add_page, or insert_row creating a page) is never kept out by a thread
\* that is at work on the contents of another page: no such thread holds a
\* lock of the directory.
C15_IndependentLocking ==
    \A t, u \in A1_Threads :
       (/\ a1_th[t].pc \in {"add_dir_write", "ins_dir_write"}
        /\ A1_OnPage(u)
        /\ a1_th[u].page_num # A1_DirTarget(t))
       => (u \notin a1_dir.readers /\ a1_dir.writer # u)

\* No thread is inside a call.
A1_AllIdle == \A t \in A1_Threads : a1_th[t].pc = "idle"

\* The number of rows in the pages pgs.
A1_TotalRows(pgs) == Len(A1_Walk(pgs))

\* C18: page capacity.  Between calls, no page holds more than PAGE_SIZE
\* rows, and the num_rows of every handle is the number of rows in the
\* shared pages.
C18_PageCapacity ==
    A1_AllIdle =>
       /\ \A n \in 1..Len(a1_pages) : Len(a1_pages[n].rows) <= A1_PAGE_SIZE
       /\ \A t \in A1_Threads :
            a1_pager[t].live => a1_pager[t].num_rows = A1_TotalRows(a1_pages)

\* Thread t holds the lock of some page.
A1_HoldsPage(t) ==
    \E n \in 1..Len(a1_plocks) : t \in a1_plocks[n].readers \/ a1_plocks[n].writer = t

\* C19: no deadlock.  Every call returns; a thread that asks for the
\* directory lock holds no page lock (locks are taken directory first, page
\* second); and when insert_row goes for the write lock to create the page
\* it found missing, it leaves the directory with that page in it, appended
\* by itself only if it is still missing: racing inserts append one page.
C19_DeadlockFree ==
    /\ \A t \in A1_Threads : (a1_th[t].pc # "idle") ~> (a1_th[t].pc = "idle")
    /\ [](\A t \in A1_Threads :
            a1_th[t].pc \in {"ins_dir_read", "ins_dir_write", "get_dir_read", "add_dir_write"}
               => ~A1_HoldsPage(t))
    /\ [][ \A t \in A1_Threads :
             (a1_th[t].pc = "ins_dir_write" /\ a1_th'[t].pc # "ins_dir_write") =>
                /\ a1_th[t].page_num < Len(a1_pages')
                /\ a1_pages' = IF a1_th[t].page_num < Len(a1_pages) THEN a1_pages
                               ELSE Append(a1_pages, A1_NewPage) ]_vars

\* C19 witness: two inserts went for the write lock to create the same
\* missing page; one has created it and is on its way to the page, the other
\* is about to find it there.
C19_Witness ==
    \E t, u \in A1_Threads :
       /\ t # u
       /\ a1_th[t].pc = "ins_dir_write" /\ a1_th[t].page_num < Len(a1_pages)
       /\ a1_th[u].pc \in {"ins_page_write", "ins_push"} /\ u \notin a1_dir.readers
       /\ a1_th[u].page_num = a1_th[t].page_num

====
